---- MODULE Spec2Model ----
(***************************************************************************)
(* elblogs (src/main.rs): list today's load-balancer log objects in S3,    *)
(* keep those last modified in the window (now - 20 min, now - 15 min),    *)
(* fetch and gunzip them concurrently, parse every line with the Request   *)
(* regular expression and print the records.                               *)
(*                                                                         *)
(* Text is modelled by TLA+ strings, read one character at a time.         *)
(***************************************************************************)
EXTENDS Integers, Sequences, FiniteSets, TLC

VARIABLES
    pc,        \* position of main()
    arg,       \* the bucket_path command line argument
    now,       \* Utc::now(), seconds since the epoch
    listing,   \* contents of the ListObjectsV2 response
    objects,   \* the listing after the last_modified filter
    futs,      \* join_all's elems: one future per selected object
    results,   \* what rt.block_on(join_all(..)) returned
    queue,     \* the flattened records not yet printed
    out,       \* records printed so far
    order,     \* indices of the futures, in the order they resolved
    fetched,   \* per future, the bytes read_to_end produced (None before)
    bytes,     \* Request::from_bytes: its argument
    parsed     \* Request::from_bytes: its return value

vars == <<pc, arg, now, listing, objects, futs, results, queue, out, order,
          fetched, bytes, parsed>>

mainVars == <<pc, arg, now, listing, objects, futs, results, queue, out, order,
              fetched>>

parseVars == <<bytes, parsed>>

(***************************************************************************)
(* Characters                                                              *)
(***************************************************************************)
Ch(s, i) == SubSeq(s, i, i)

Quote == "\""

\* \s of the regex crate, restricted to the characters a line can hold
IsSpace(c) == c \in {" ", "\t", "\r"}

IsDigit(c) == c \in {"0", "1", "2", "3", "4", "5", "6", "7", "8", "9"}

DigitValue(c) ==
    CASE c = "0" -> 0 [] c = "1" -> 1 [] c = "2" -> 2 [] c = "3" -> 3
      [] c = "4" -> 4 [] c = "5" -> 5 [] c = "6" -> 6 [] c = "7" -> 7
      [] c = "8" -> 8 [] c = "9" -> 9

\* Stands for a byte that is not valid UTF-8 (0xFF); the inputs use this
\* character for nothing else.
BadByte == "#"

None == [some |-> FALSE]

Some(v) == [some |-> TRUE, val |-> v]

(***************************************************************************)
(* Numeric fields of Request (serde, through recap and envy, parses each   *)
(* captured string with the FromStr of the field's type)                   *)
(***************************************************************************)
U16Max == 65535

UsizeMaxDigits == "18446744073709551615"

\* the integer parsers accept one leading '+'; unsigned types no '-'
StripPlus(s) == IF Len(s) > 0 /\ Ch(s, 1) = "+" THEN SubSeq(s, 2, Len(s)) ELSE s

RECURSIVE AccUnsigned(_, _, _, _)
\* digit by digit, checked_mul and checked_add against the type's maximum
AccUnsigned(s, i, acc, max) ==
    IF i > Len(s) THEN Some(acc)
    ELSE IF ~IsDigit(Ch(s, i)) THEN None
    ELSE LET v == acc * 10 + DigitValue(Ch(s, i))
         IN  IF v > max THEN None ELSE AccUnsigned(s, i + 1, v, max)

\* ParseU16 without the overflow check: the digits are read into a wider
\* integer and truncated to 16 bits
ParseU16Truncating(s) ==
    LET d == StripPlus(s)
        v == AccUnsigned(d, 1, 0, 999999999)
    IN  IF Len(d) = 0 \/ ~v.some THEN None ELSE Some(v.val % (U16Max + 1))

ParseU16(s) ==
    LET d == StripPlus(s)
    IN  IF Len(d) = 0 THEN None ELSE AccUnsigned(d, 1, 0, U16Max)

AllDigits(s) == \A i \in 1..Len(s) : IsDigit(Ch(s, i))

RECURSIVE StripLeadingZeros(_)
StripLeadingZeros(s) ==
    IF Len(s) > 1 /\ Ch(s, 1) = "0" THEN StripLeadingZeros(SubSeq(s, 2, Len(s)))
    ELSE s

RECURSIVE StripTrailingZeros(_)
StripTrailingZeros(s) ==
    IF Len(s) > 0 /\ Ch(s, Len(s)) = "0"
    THEN StripTrailingZeros(SubSeq(s, 1, Len(s) - 1))
    ELSE s

RECURSIVE NumeralGreater(_, _, _)
\* a > b for two digit strings of the same length, from position i on
NumeralGreater(a, b, i) ==
    IF i > Len(a) THEN FALSE
    ELSE IF DigitValue(Ch(a, i)) # DigitValue(Ch(b, i))
         THEN DigitValue(Ch(a, i)) > DigitValue(Ch(b, i))
         ELSE NumeralGreater(a, b, i + 1)

\* usize on a 64-bit target. The value is kept as its decimal numeral: 2^64
\* is outside the integers TLC computes with.
ParseUsize(s) ==
    LET d == StripPlus(s)
        n == StripLeadingZeros(d)
    IN  IF Len(d) = 0 \/ ~AllDigits(d) THEN None
        ELSE IF Len(n) > Len(UsizeMaxDigits) THEN None
        ELSE IF Len(n) = Len(UsizeMaxDigits) /\ NumeralGreater(n, UsizeMaxDigits, 1)
             THEN None
        ELSE Some(n)

\* first position >= i of character c in s, Len(s) + 1 when there is none
IndexOf(s, c, i) ==
    LET at == {j \in i..Len(s) : Ch(s, j) = c}
    IN  IF at = {} THEN Len(s) + 1 ELSE CHOOSE j \in at : \A h \in at : j <= h

\* f32: [sign] digits [ '.' digits ], one digit at least. The value is kept
\* as sign, integer numeral and fraction numeral (no rounding to 24 bits);
\* exponents and the inf / NaN spellings are outside the modelled alphabet.
ParseF32(s) ==
    LET signed == Len(s) > 0 /\ Ch(s, 1) \in {"-", "+"}
        m      == IF signed THEN SubSeq(s, 2, Len(s)) ELSE s
        dot    == IndexOf(m, ".", 1)
        ip     == SubSeq(m, 1, dot - 1)
        fp     == SubSeq(m, dot + 1, Len(m))
    IN  IF AllDigits(ip) /\ AllDigits(fp) /\ Len(ip) + Len(fp) > 0
        THEN Some([neg  |-> signed /\ Ch(s, 1) = "-",
                   int  |-> IF ip = "" THEN "0" ELSE StripLeadingZeros(ip),
                   frac |-> StripTrailingZeros(fp)])
        ELSE None

(***************************************************************************)
(* The Request pattern: #[recap(regex = ..)] in verbose mode, so the       *)
(* pattern is the 25 groups below with one \s between two neighbours. It   *)
(* carries no ^ and no $.                                                  *)
(*   type     (http|https|h2|ws|wss)                                       *)
(*   bare     ([\S]+)                                                      *)
(*   quoted   one or more characters other than a double quote, between  *)
(*            two double quotes                                            *)
(*   agent    the same, with zero characters allowed (user_agent)          *)
(***************************************************************************)
TypeLiterals == <<"http", "https", "h2", "ws", "wss">>

FieldNames ==
    <<"request_type", "timestamp", "elb", "client", "target",
      "request_processing_time", "target_processing_time",
      "response_processing_time", "elb_status_code", "target_status_code",
      "received_bytes", "sent_bytes", "request", "user_agent", "ssl_cipher",
      "ssl_protocol", "target_group_arn", "trace_id", "domain_name",
      "chosen_cert_arn", "matched_rule_priority", "request_creation_time",
      "actions_executed", "redirect_url", "error_reason">>

NumFields == Len(FieldNames)

FieldKind(k) ==
    IF k = 1 THEN "type"
    ELSE IF k = 14 THEN "agent"
    ELSE IF k \in {13, 18, 19, 20, 23, 24, 25} THEN "quoted"
    ELSE "bare"

\* the types of the struct's fields
FieldType(k) ==
    IF k \in {6, 7, 8} THEN "f32"
    ELSE IF k \in {9, 10, 21} THEN "u16"
    ELSE IF k \in {11, 12} THEN "usize"
    ELSE "String"

HasAt(s, p, lit) ==
    /\ p + Len(lit) - 1 <= Len(s)
    /\ SubSeq(s, p, p + Len(lit) - 1) = lit

\* [\S]+ is greedy: the position after the longest run of non-space
\* characters from p. Backtracking to a shorter run leaves a non-space
\* character next, which the \s that follows every bare group rejects.
RunEnd(s, p) ==
    LET sp == {j \in p..Len(s) : IsSpace(Ch(s, j))}
    IN  IF sp = {} THEN Len(s) + 1 ELSE CHOOSE j \in sp : \A h \in sp : j <= h

NoMatch == [ok |-> FALSE]

RECURSIVE MatchFields(_, _, _, _)
RECURSIVE MatchRest(_, _, _, _)

\* group k is matched and ended before position e: the \s and the next group
MatchRest(s, e, k, caps) ==
    IF k = NumFields THEN [ok |-> TRUE, caps |-> caps, end |-> e]
    ELSE IF e <= Len(s) /\ IsSpace(Ch(s, e)) THEN MatchFields(s, e + 1, k + 1, caps)
    ELSE NoMatch

RECURSIVE MatchType(_, _, _)
\* the alternation tries its literals in the order written and backtracks
MatchType(s, p, a) ==
    IF a > Len(TypeLiterals) THEN NoMatch
    ELSE LET lit == TypeLiterals[a]
             m   == IF HasAt(s, p, lit)
                    THEN MatchRest(s, p + Len(lit), 1, <<lit>>)
                    ELSE NoMatch
         IN  IF m.ok THEN m ELSE MatchType(s, p, a + 1)

\* groups k..25 matched from position p, with caps the captures of 1..k-1
MatchFields(s, p, k, caps) ==
    CASE FieldKind(k) = "type" -> MatchType(s, p, 1)
      [] FieldKind(k) = "bare" ->
            LET e == RunEnd(s, p)
            IN  IF e > p THEN MatchRest(s, e, k, Append(caps, SubSeq(s, p, e - 1)))
                ELSE NoMatch
      [] FieldKind(k) \in {"quoted", "agent"} ->
            IF p <= Len(s) /\ Ch(s, p) = Quote
            THEN LET q == IndexOf(s, Quote, p + 1)
                 IN  IF q <= Len(s) /\ (q > p + 1 \/ FieldKind(k) = "agent")
                     THEN MatchRest(s, q + 1, k, Append(caps, SubSeq(s, p + 1, q - 1)))
                     ELSE NoMatch
            ELSE NoMatch

\* Regex::captures searches: the leftmost position where the pattern matches
Captures(s) ==
    LET starts == {p \in 1..Len(s) : MatchFields(s, p, 1, <<>>).ok}
    IN  IF starts = {} THEN NoMatch
        ELSE LET p == CHOOSE q \in starts : \A h \in starts : q <= h
                 m == MatchFields(s, p, 1, <<>>)
             IN  [ok |-> TRUE, caps |-> m.caps, start |-> p, end |-> m.end]

\* serde's visit of one captured string for a field of the given type
FieldValue(k, text) ==
    CASE FieldType(k) = "f32"    -> ParseF32(text)
      [] FieldType(k) = "u16"    -> ParseU16(text)
      [] FieldType(k) = "usize"  -> ParseUsize(text)
      [] FieldType(k) = "String" -> Some(text)

\* <Request as FromStr>::from_str(line).ok()
ParseLine(line) ==
    LET m == Captures(line)
    IN  IF ~m.ok THEN None
        ELSE LET vals == [k \in 1..NumFields |-> FieldValue(k, m.caps[k])]
             IN  IF \E k \in 1..NumFields : ~vals[k].some THEN None
                 ELSE Some([k \in 1..NumFields |-> vals[k].val])

(***************************************************************************)
(* Request::from_bytes                                                     *)
(***************************************************************************)
\* std::str::from_utf8(&bytes).ok()
ValidUtf8(b) == \A i \in 1..Len(b) : Ch(b, i) # BadByte

StripCr(l) ==
    IF Len(l) > 0 /\ Ch(l, Len(l)) = "\r" THEN SubSeq(l, 1, Len(l) - 1) ELSE l

RECURSIVE LinesFrom(_, _)
\* str::lines(): the pieces between line feeds, a carriage return before the
\* line feed removed, no empty piece after the last line feed
LinesFrom(s, p) ==
    IF p > Len(s) THEN <<>>
    ELSE LET nl == IndexOf(s, "\n", p)
         IN  <<StripCr(SubSeq(s, p, nl - 1))>> \o LinesFrom(s, nl + 1)

Lines(s) == LinesFrom(s, 1)

RECURSIVE FilterMapParse(_)
\* .filter_map(|line| line.parse().ok()).collect()
FilterMapParse(ls) ==
    IF ls = <<>> THEN <<>>
    ELSE LET r == ParseLine(Head(ls))
         IN  (IF r.some THEN <<r.val>> ELSE <<>>) \o FilterMapParse(Tail(ls))

\* FromBytes with String::from_utf8_lossy in place of from_utf8: the bytes
\* that are not UTF-8 stay in their line and the other lines are parsed
FromBytesLossy(b) == Some(FilterMapParse(Lines(b)))

FromBytes(b) ==
    IF ~ValidUtf8(b) THEN None ELSE Some(FilterMapParse(Lines(b)))

(***************************************************************************)
(* BucketPath: a bucket without '/', a '/', and the path after it        *)
(***************************************************************************)
ParseBucketPath(a) ==
    LET slash == IndexOf(a, "/", 1)
        eol   == IndexOf(a, "\n", slash + 1)
    IN  IF 1 < slash /\ slash <= Len(a)
        THEN Some([bucket |-> SubSeq(a, 1, slash - 1),
                   path   |-> SubSeq(a, slash + 1, eol - 1)])
        ELSE None

(***************************************************************************)
(* Time. An instant is [sec, ns]: seconds since the epoch and nanoseconds; *)
(* a time of day is <<seconds since midnight, nanoseconds>>.               *)
(***************************************************************************)
SecondsPerDay == 24 * 60 * 60

UntilMinutes == 15

AfterMinutes == 20

\* now - chrono::Duration::minutes(m)
MinusMinutes(t, m) == [sec |-> t.sec - m * 60, ns |-> t.ns]

\* DateTime<Utc>::time()
UtcTime(t) == <<t.sec % SecondsPerDay, t.ns>>

\* NaiveTime's ordering
TimeLess(a, b) == a[1] < b[1] \/ (a[1] = b[1] /\ a[2] < b[2])

Number(s) == AccUnsigned(s, 1, 0, 999999999).val

IsLeapYear(y) == (y % 4 = 0 /\ y % 100 # 0) \/ y % 400 = 0

DaysInMonth(y, m) ==
    IF m = 2 THEN (IF IsLeapYear(y) THEN 29 ELSE 28)
    ELSE IF m \in {4, 6, 9, 11} THEN 30 ELSE 31

\* the fraction of a second, as nanoseconds: the first nine digits count
FractionNanos(d) ==
    LET n == IF Len(d) > 9 THEN 9 ELSE Len(d)
        RECURSIVE Pad(_, _)
        Pad(v, k) == IF k = 0 THEN v ELSE Pad(v * 10, k - 1)
    IN  Pad(Number(SubSeq(d, 1, n)), 9 - n)

\* the zone of an RFC 3339 timestamp: Z, or a sign, hh ':' mm
ValidZone(z) ==
    \/ z \in {"Z", "z"}
    \/ /\ Len(z) = 6
       /\ Ch(z, 1) \in {"+", "-"}
       /\ AllDigits(SubSeq(z, 2, 3)) /\ Ch(z, 4) = ":" /\ AllDigits(SubSeq(z, 5, 6))
       /\ Number(SubSeq(z, 2, 3)) <= 23 /\ Number(SubSeq(z, 5, 6)) <= 59

\* DateTime::parse_from_rfc3339(s).ok().map(|parsed| parsed.time()):
\* yyyy-mm-ddThh:mm:ss[.fraction]zone. time() of a DateTime<FixedOffset> is
\* the local time, the one the string spells. Leap seconds (ss = 60) are
\* outside the modelled alphabet.
ParseRfc3339Time(s) ==
    LET fracEnd == IF Len(s) >= 20 /\ Ch(s, 20) = "."
                   THEN CHOOSE e \in 20..Len(s) :
                            /\ \A j \in 21..e : IsDigit(Ch(s, j))
                            /\ (e = Len(s) \/ ~IsDigit(Ch(s, e + 1)))
                   ELSE 19
        frac    == SubSeq(s, 21, fracEnd)
        year    == Number(SubSeq(s, 1, 4))
        month   == Number(SubSeq(s, 6, 7))
        day     == Number(SubSeq(s, 9, 10))
        hour    == Number(SubSeq(s, 12, 13))
        minute  == Number(SubSeq(s, 15, 16))
        second  == Number(SubSeq(s, 18, 19))
    IN  IF /\ Len(s) >= 20
           /\ AllDigits(SubSeq(s, 1, 4)) /\ Ch(s, 5) = "-"
           /\ AllDigits(SubSeq(s, 6, 7)) /\ Ch(s, 8) = "-"
           /\ AllDigits(SubSeq(s, 9, 10)) /\ Ch(s, 11) \in {"T", "t"}
           /\ AllDigits(SubSeq(s, 12, 13)) /\ Ch(s, 14) = ":"
           /\ AllDigits(SubSeq(s, 15, 16)) /\ Ch(s, 17) = ":"
           /\ AllDigits(SubSeq(s, 18, 19))
           /\ (Ch(s, 20) = "." => fracEnd > 20)
           /\ ValidZone(SubSeq(s, fracEnd + 1, Len(s)))
           /\ month \in 1..12 /\ day \in 1..DaysInMonth(year, month)
           /\ hour <= 23 /\ minute <= 59 /\ second <= 59
        THEN Some(<<hour * 3600 + minute * 60 + second,
                    IF frac = "" THEN 0 ELSE FractionNanos(frac)>>)
        ELSE None

\* InWindow with a lower bound that is not strict
InWindowInclusive(obj, t) ==
    LET text   == IF obj.last_modified.some THEN obj.last_modified.val ELSE ""
        parsed_time == ParseRfc3339Time(text)
        after  == MinusMinutes(t, AfterMinutes)
        until  == MinusMinutes(t, UntilMinutes)
    IN  /\ parsed_time.some
        /\ ~TimeLess(parsed_time.val, UtcTime(after))
        /\ TimeLess(parsed_time.val, UtcTime(until))

\* InWindow with a window that wraps around midnight when its lower bound
\* is the later time of day
InWindowWrapping(obj, t) ==
    LET text   == IF obj.last_modified.some THEN obj.last_modified.val ELSE ""
        parsed_time == ParseRfc3339Time(text)
        after  == UtcTime(MinusMinutes(t, AfterMinutes))
        until  == UtcTime(MinusMinutes(t, UntilMinutes))
    IN  /\ parsed_time.some
        /\ IF TimeLess(after, until)
           THEN TimeLess(after, parsed_time.val) /\ TimeLess(parsed_time.val, until)
           ELSE TimeLess(after, parsed_time.val) \/ TimeLess(parsed_time.val, until)

\* the closure of .filter(): obj.last_modified.clone().unwrap_or_default(),
\* parsed, and both comparisons strict
InWindow(obj, t) ==
    LET text   == IF obj.last_modified.some THEN obj.last_modified.val ELSE ""
        parsed_time == ParseRfc3339Time(text)
        after  == MinusMinutes(t, AfterMinutes)
        until  == MinusMinutes(t, UntilMinutes)
    IN  /\ parsed_time.some
        /\ TimeLess(UtcTime(after), parsed_time.val)
        /\ TimeLess(parsed_time.val, UtcTime(until))

RECURSIVE Filter(_, _)
\* .into_iter().filter(..).collect::<Vec<_>>()
Filter(objs, t) ==
    IF objs = <<>> THEN <<>>
    ELSE (IF InWindow(Head(objs), t) THEN <<Head(objs)>> ELSE <<>>)
         \o Filter(Tail(objs), t)

(***************************************************************************)
(* Inputs of the model                                                     *)
(***************************************************************************)
MaxObjects == 2

\* 2019-03-10T00:00:00Z
Midnight == 17965 * SecondsPerDay

\* Utc::now(), by time of day: 00:30:00 (window 00:10:00 .. 00:15:00),
\* 00:23:20 (window 00:03:20 .. 00:08:20), 00:20:00 (window 00:00:00 ..
\* 00:05:00), 00:15:00 and the last nanosecond before 00:20:00 (now - 20 min
\* falls on the day before, now - 15 min does not), the last nanosecond
\* before 00:15:00 (both bounds on the day before)
Nows ==
    {[sec |-> Midnight + 1800, ns |-> 0],
     [sec |-> Midnight + 1400, ns |-> 0],
     [sec |-> Midnight + 1200, ns |-> 0],
     [sec |-> Midnight + 1199, ns |-> 999999999],
     [sec |-> Midnight + 900, ns |-> 0],
     [sec |-> Midnight + 899, ns |-> 999999999]}

LastModifieds ==
    {None,
     Some("yesterday"),
     Some("2019-13-10T00:12:30.000Z"),
     Some("2019-03-10T00:10:00.000Z"),
     Some("2019-03-10T00:15:00.000Z"),
     Some("2019-03-09T00:05:50Z"),
     Some("2019-03-10T00:12:30.000-05:00"),
     Some("2019-03-10T01:12:30.000+01:00"),
     Some("2019-03-10T00:01:40.000Z"),
     Some("2019-03-09T23:52:00.000Z")}

Key(i) == "elb_" \o ToString(i) \o ".log.gz"

\* the listings: object i has key Key(i) and any of the timestamps
Listings ==
    UNION {{[i \in 1..n |-> [key |-> Some(Key(i)), last_modified |-> f[i]]] :
                f \in [1..n -> LastModifieds]} : n \in 0..MaxObjects}

ArgChoices == {None, Some("logs"), Some("/elb"), Some("logs/elb")}

RECURSIVE Join(_)
\* the tokens with one space between two neighbours
Join(toks) ==
    IF toks = <<>> THEN ""
    ELSE IF Len(toks) = 1 THEN toks[1]
    ELSE toks[1] \o " " \o Join(Tail(toks))

\* the 25 tokens of a log line that matches the grammar
TokensA ==
    <<"h2", "t", "e", "c", "g", "0.001", "-1", "0", "200", "200", "5", "7",
      "\"GET /\"", "\"Mozilla/5.0 (Windows)\"", "s", "p", "a", "\"i\"", "\"d\"",
      "\"c\"", "0", "r", "\"w\"", "\"u\"", "\"-\"">>

TokensB ==
    <<"https", "t", "e", "c", "g", "0", "0", "0", "404", "404", "0", "9",
      "\"PUT /\"", "\"\"", "s", "p", "a", "\"i\"", "\"d\"", "\"c\"", "1", "r",
      "\"w\"", "\"u\"", "\"-\"">>

\* log lines: two that match the grammar, one whose elb_status_code is no
\* number
LineA == Join(TokensA)

LineB == Join(TokensB)

LineBad == Join([TokensB EXCEPT ![9] = "abc"])

\* decompressed bodies: two valid lines around a malformed one; one valid
\* line; a valid line followed by bytes that are not UTF-8
BodyMixed == LineA \o "\n" \o LineBad \o "\n" \o LineB \o "\n"

BodyOne == LineB \o "\n"

BodyNotUtf8 == LineA \o "\n" \o BadByte \o "\n"

Bodies == {BodyMixed, BodyOne, BodyNotUtf8}

(***************************************************************************)
(* main()                                                                  *)
(***************************************************************************)
NoTime == [sec |-> 0, ns |-> 0]

NotCalled == [called |-> FALSE]

NoResult == [returned |-> FALSE]

Ok(v) == [returned |-> TRUE, ok |-> TRUE, val |-> v]

Err(e) == [returned |-> TRUE, ok |-> FALSE, err |-> e]

\* Option::unwrap_or_default for a String and for a Vec
StringOrDefault(o) == IF o.some THEN o.val ELSE ""

VecOrDefault(o) == IF o.some THEN o.val ELSE <<>>

\* Result::unwrap_or_default for the Vec that join_all resolves to
ResultOrDefault(r) == IF r.ok THEN r.val ELSE <<>>

RECURSIVE Flatten(_)
\* .into_iter().flatten().collect::<Vec<_>>()
Flatten(vs) == IF vs = <<>> THEN <<>> ELSE Head(vs) \o Flatten(Tail(vs))

Pending(f) == f.st \in {"GetObject", "ReadToEnd"}

\* JoinAll::poll on an error: self.elems = Vec::new() drops every element,
\* the futures still pending with it, and the error is returned
DropElems(fs, i, e) ==
    [j \in 1..Len(fs) |->
        IF j = i THEN [st |-> "Err", key |-> fs[j].key, err |-> e]
        ELSE IF Pending(fs[j]) THEN [st |-> "Dropped", key |-> fs[j].key]
        ELSE fs[j]]

\* JoinAllValue with the values in the reverse of the elements' order
JoinAllValueReversed(fs) == [j \in 1..Len(fs) |-> fs[Len(fs) + 1 - j].val]

\* JoinAll::poll once every element is done: the values, in the order of
\* the elements
JoinAllValue(fs) == [j \in 1..Len(fs) |-> fs[j].val]

AllDone(fs) == \A j \in 1..Len(fs) : fs[j].st = "Done"

\* .map(|(_, bytes)| Request::from_bytes(bytes).unwrap_or_default()),
\* tabulated over the bodies
MapBytes == [b \in Bodies |-> VecOrDefault(FromBytes(b))]

Init ==
    /\ pc = "start"
    /\ arg \in ArgChoices
    /\ now = NoTime
    /\ listing = <<>>
    /\ objects = <<>>
    /\ futs = <<>>
    /\ results = NoResult
    /\ queue = <<>>
    /\ out = <<>>
    /\ order = <<>>
    /\ fetched = <<>>
    /\ bytes = ""
    /\ parsed = NotCalled

\* ElbLogs::from_args(), which prints the usage and exits when the argument
\* is missing, and bucket_path.parse().unwrap(), which panics
ParseArgs ==
    /\ pc = "start"
    /\ pc' = IF ~arg.some THEN "usage"
             ELSE IF ~ParseBucketPath(arg.val).some THEN "panic_parse"
             ELSE "parsed"
    /\ UNCHANGED <<arg, now, listing, objects, futs, results, queue, out, order,
                   fetched, bytes, parsed>>

\* let now = Utc::now(); until, after and the prefix derive from it
ReadClock ==
    /\ pc = "parsed"
    /\ now' \in Nows
    /\ pc' = "clock"
    /\ UNCHANGED <<arg, listing, objects, futs, results, queue, out, order,
                   fetched, bytes, parsed>>

\* s3.list_objects_v2(..).sync().unwrap().contents.unwrap_or_default():
\* the unwrap panics when the call failed
ListObjects ==
    /\ pc = "clock"
    /\ \/ /\ pc' = "panic_list"
          /\ UNCHANGED listing
       \/ /\ \E contents \in {None} \cup {Some(l) : l \in Listings} :
                listing' = VecOrDefault(contents)
          /\ pc' = "listed"
    /\ UNCHANGED <<arg, now, objects, futs, results, queue, out, order, fetched,
                   bytes, parsed>>

\* .into_iter().filter(..).collect()
FilterObjects ==
    /\ pc = "listed"
    /\ objects' = Filter(listing, now)
    /\ pc' = "filtered"
    /\ UNCHANGED <<arg, now, listing, futs, results, queue, out, order, fetched,
                   bytes, parsed>>

\* future::join_all(contents) runs the map closure for every object, which
\* builds its get_object future; rt.block_on polls them. With no object the
\* first poll resolves to an empty Vec.
JoinAll ==
    /\ pc = "filtered"
    /\ futs' = [i \in 1..Len(objects) |->
                    [st |-> "GetObject", key |-> StringOrDefault(objects[i].key)]]
    /\ fetched' = [i \in 1..Len(objects) |-> None]
    /\ IF objects = <<>>
       THEN results' = Ok(<<>>) /\ pc' = "joined"
       ELSE results' = results /\ pc' = "running"
    /\ UNCHANGED <<arg, now, listing, objects, queue, out, order, bytes, parsed>>

\* the get_object future of element i resolves: an error, mapped by
\* Error::from; or a response, whose body the and_then closure unwraps: a
\* response without a body panics the task, and block_on, whose channel is
\* then dropped, panics in main
GetObjectResolves(i) ==
    /\ pc = "running"
    /\ futs[i].st = "GetObject"
    /\ \/ /\ futs' = DropElems(futs, i, "Get")
          /\ results' = Err("Get")
          /\ order' = Append(order, i)
          /\ pc' = "joined"
       \/ /\ pc' = "panic_body"
          /\ UNCHANGED <<futs, results, order>>
       \/ /\ futs' = [futs EXCEPT ![i].st = "ReadToEnd"]
          /\ UNCHANGED <<pc, results, order>>
    /\ UNCHANGED <<arg, now, listing, objects, queue, out, fetched, bytes, parsed>>

\* read_to_end over the GzDecoder of element i resolves: an io::Error, or
\* the bytes, mapped to Request::from_bytes(bytes).unwrap_or_default()
ReadToEndResolves(i) ==
    /\ pc = "running"
    /\ futs[i].st = "ReadToEnd"
    /\ \/ /\ futs' = DropElems(futs, i, "Io")
          /\ results' = Err("Io")
          /\ pc' = "joined"
          /\ UNCHANGED fetched
       \/ \E b \in Bodies :
            LET fs == [futs EXCEPT ![i] = [st  |-> "Done", key |-> futs[i].key,
                                           val |-> MapBytes[b]]]
            IN  /\ futs' = fs
                /\ fetched' = [fetched EXCEPT ![i] = Some(b)]
                /\ IF AllDone(fs)
                   THEN results' = Ok(JoinAllValue(fs)) /\ pc' = "joined"
                   ELSE results' = results /\ pc' = pc
    /\ order' = Append(order, i)
    /\ UNCHANGED <<arg, now, listing, objects, queue, out, bytes, parsed>>

\* results.unwrap_or_default().into_iter().flatten().collect::<Vec<_>>()
Collect ==
    /\ pc = "joined"
    /\ queue' = Flatten(ResultOrDefault(results))
    /\ pc' = "printing"
    /\ UNCHANGED <<arg, now, listing, objects, futs, results, out, order, fetched,
                   bytes, parsed>>

\* one iteration of the for loop: println!("{:#?}", line)
PrintRecord ==
    /\ pc = "printing"
    /\ queue # <<>>
    /\ out' = Append(out, Head(queue))
    /\ queue' = Tail(queue)
    /\ UNCHANGED <<pc, arg, now, listing, objects, futs, results, order, fetched,
                   bytes, parsed>>

\* the loop is over and main returns
Return ==
    /\ pc = "printing"
    /\ queue = <<>>
    /\ pc' = "done"
    /\ UNCHANGED <<arg, now, listing, objects, futs, results, queue, out, order,
                   fetched, bytes, parsed>>

Next ==
    \/ ParseArgs
    \/ ReadClock
    \/ ListObjects
    \/ FilterObjects
    \/ JoinAll
    \/ \E i \in 1..Len(futs) : GetObjectResolves(i)
    \/ \E i \in 1..Len(futs) : ReadToEndResolves(i)
    \/ Collect
    \/ PrintRecord
    \/ Return

Spec == Init /\ [][Next]_vars

(***************************************************************************)
(* Request::from_bytes on its own: any of the inputs below, parsed once    *)
(***************************************************************************)
\* tokens put in place of a token of TokensA
AltTokens ==
    {"abc", "-1", "65535", "65536", "1.5", "18446744073709551616",
     "\"x y\"", "\"\"", "HTTP", "xhttp", "httpx", "ahttpb", "ftp", "wss"}

RemoveAt(toks, k) == SubSeq(toks, 1, k - 1) \o SubSeq(toks, k + 1, Len(toks))

\* lines: TokensA with one token replaced or removed, text before or after
\* the line, other separators, two records on one line, no text at all
ParseLines ==
    {Join([TokensA EXCEPT ![k] = a]) : k \in 1..Len(TokensA), a \in AltTokens}
    \cup {Join(RemoveAt(TokensA, k)) : k \in 1..Len(TokensA)}
    \cup {Join(<<x>> \o TokensA) : x \in {"x", "", "HTTP", "http"}}
    \cup {Join(TokensA \o <<x>>) : x \in {"x", "", "\"z\""}}
    \cup {LineA \o "x", "x" \o LineA, LineA \o " " \o LineB,
          LineBad \o " " \o LineB, "HTTP" \o SubSeq(LineBad, 5, Len(LineBad)) \o " " \o LineB,
          "h2\tt" \o SubSeq(LineA, 5, Len(LineA)),
          "h2  t" \o SubSeq(LineA, 5, Len(LineA)),
          "", " ", LineA, LineB, LineBad}

\* bodies: one line; the line followed by a valid line; some with CR LF, a
\* valid line first, or bytes that are not UTF-8
ParseInputs ==
    UNION {{l, l \o "\n" \o LineB \o "\n"} : l \in ParseLines}
    \cup {LineB \o "\n" \o LineBad, LineBad \o "\r\n" \o LineB \o "\r\n",
          LineA \o "\n" \o BadByte, LineBad \o "\n" \o BadByte, BadByte, "\n\n"}

ParseInit ==
    /\ pc = "start"
    /\ arg = None
    /\ now = NoTime
    /\ listing = <<>>
    /\ objects = <<>>
    /\ futs = <<>>
    /\ results = NoResult
    /\ queue = <<>>
    /\ out = <<>>
    /\ order = <<>>
    /\ fetched = <<>>
    /\ bytes \in ParseInputs
    /\ parsed = NotCalled

FromBytesCall ==
    /\ ~parsed.called
    /\ parsed' = [called |-> TRUE, ret |-> FromBytes(bytes)]
    /\ UNCHANGED <<bytes, mainVars>>

ParseNext == FromBytesCall

SpecParse == ParseInit /\ [][ParseNext]_vars

(***************************************************************************)
(* Properties of main()                                                    *)
(***************************************************************************)
Dispatched == pc \in {"running", "joined", "printing", "done", "panic_body"}

Filtered == Dispatched \/ pc = "filtered"

Aborted == pc \in {"usage", "panic_parse", "panic_list", "panic_body"}

\* the records of the objects whose fetch and decompression succeeded, in
\* the order of the objects
SucceededRecords ==
    Flatten([i \in 1..Len(futs) |->
                IF futs[i].st = "Done" THEN futs[i].val ELSE <<>>])

\* C1: when the run ends, the output holds exactly the records of every
\* object whose fetch and decompression succeeded, whatever happened to the
\* other objects; a failed object contributes none.
C1_Isolation == pc = "done" => out = SucceededRecords

\* C2: once the join has returned (and so before any record is printed),
\* every dispatched fetch has completed or has failed; none is left that
\* did neither.
C2_JoinBarrier ==
    (results.returned \/ out # <<>>) =>
        \A i \in 1..Len(futs) : futs[i].st \in {"Done", "Err"}

\* C8: the process aborts only on a missing or unparsable bucket path
\* argument or a failed listing call, and it does abort on those; after the
\* listing has succeeded nothing aborts it.
C8_OnlySetupFatal ==
    /\ Aborted => pc \in {"usage", "panic_parse", "panic_list"}
    /\ pc \notin {"start", "usage", "panic_parse"} =>
            arg.some /\ ParseBucketPath(arg.val).some

\* the time of day of now - m minutes, computed from now's own time of day
TimeOfDayBefore(m) ==
    <<((now.sec % SecondsPerDay) + SecondsPerDay - m * 60) % SecondsPerDay, now.ns>>

\* the time of day each listed timestamp spells, None when it is missing or
\* no RFC 3339 timestamp
TimeOfDayOf ==
    [lm \in LastModifieds |-> IF lm.some THEN ParseRfc3339Time(lm.val) ELSE None]

\* the Window Selector of the claim: the timestamp parses, and its time of
\* day lies strictly between those of now - 20 min and now - 15 min
KeptByWindow(c) ==
    /\ TimeOfDayOf[c.last_modified].some
    /\ LET tod == TimeOfDayOf[c.last_modified].val
           lo  == TimeOfDayBefore(20)
           hi  == TimeOfDayBefore(15)
       IN  /\ tod[1] > lo[1] \/ (tod[1] = lo[1] /\ tod[2] > lo[2])
           /\ tod[1] < hi[1] \/ (tod[1] = hi[1] /\ tod[2] < hi[2])

\* C3: the filter keeps a listed candidate exactly when its last_modified
\* parses as an RFC 3339 timestamp whose time of day lies strictly between
\* the times of day of now - 20 min and now - 15 min; the date plays no
\* part, and a missing or unparsable last_modified drops the candidate
\* without ending the run: no abort happens between a listing that
\* succeeded and the dispatch.
C3_WindowSelector ==
    /\ Filtered => objects = SelectSeq(listing, KeptByWindow)
    /\ Aborted /\ pc # "panic_list" /\ now # NoTime => futs # <<>>

\* at 00:30:00 a candidate exactly on the lower bound was listed and
\* dropped and one inside the window kept, or one inside the window was
\* kept and one without last_modified dropped
C3_Witness ==
    /\ pc = "filtered"
    /\ now.sec % SecondsPerDay = 1800
    /\ \/ /\ Len(listing) = 2 /\ Len(objects) = 1
          /\ listing[1].last_modified = Some("2019-03-10T00:10:00.000Z")
          /\ listing[2].last_modified = Some("2019-03-10T00:12:30.000-05:00")
       \/ /\ Len(listing) = 2 /\ Len(objects) = 1
          /\ listing[1].last_modified = Some("2019-03-10T00:12:30.000-05:00")
          /\ listing[2].last_modified = None

\* now - 20 min is not earlier in the day than now - 15 min
Straddles == ~TimeLess(TimeOfDayBefore(20), TimeOfDayBefore(15))

\* C9: the time of day of now - 20 min is not earlier than that of
\* now - 15 min exactly when now's time of day is in [00:15, 00:20), and
\* then no candidate is kept, no fetch is dispatched, no record is output.
C9_MidnightStraddle ==
    pc \notin {"start", "usage", "panic_parse", "parsed"} =>
        /\ Straddles <=> (now.sec % SecondsPerDay) \in (15 * 60)..(20 * 60 - 1)
        /\ Straddles => objects = <<>> /\ futs = <<>> /\ queue = <<>> /\ out = <<>>

\* the run ended in the straddling case although a candidate at 00:01:40
\* was listed
C9_Witness ==
    /\ pc = "done"
    /\ Straddles
    /\ \E i \in 1..Len(listing) :
            listing[i].last_modified = Some("2019-03-10T00:01:40.000Z")

\* C10: when every fetch succeeded, what is printed and what is still to be
\* printed are together the per-object record lists concatenated in the
\* order of the selected objects, each list in the line order of its
\* object, whatever the order in which the fetches resolved.
C10_AggregationOrder ==
    pc \in {"printing", "done"} /\ results.ok =>
        /\ Len(futs) = Len(objects)
        /\ \A i \in 1..Len(futs) : futs[i].key = StringOrDefault(objects[i].key)
        /\ out \o queue = Flatten([i \in 1..Len(futs) |-> futs[i].val])
        /\ \A i \in 1..Len(futs) :
                fetched[i] = Some(BodyMixed) =>
                    /\ Len(futs[i].val) = 2
                    /\ futs[i].val[1][1] = "h2"
                    /\ futs[i].val[2][1] = "https"

\* the second object resolved first, and the output still starts with the
\* two records of the first object
C10_Witness ==
    /\ pc = "done"
    /\ results.ok
    /\ order = <<2, 1>>
    /\ fetched = <<Some(BodyMixed), Some(BodyOne)>>
    /\ Len(out) = 3
    /\ out[1][1] = "h2"

\* the lines of a body, split at the line feeds, that are valid UTF-8 and
\* that the parser accepts, as records
ParsableLineRecords(b) == FilterMapParse(SelectSeq(Lines(b), ValidUtf8))

LineRecords == [b \in Bodies |-> ParsableLineRecords(b)]

Utf8LineRecords ==
    [b \in Bodies |-> IF ValidUtf8(b) THEN ParsableLineRecords(b) ELSE <<>>]

\* a fetch was dispatched for the candidates the Window Selector keeps, each
\* once and in their order, and for no other
DispatchedExactly ==
    LET kept == SelectSeq(listing, KeptByWindow)
    IN  /\ Len(futs) = Len(kept)
        /\ \A i \in 1..Len(futs) : futs[i].key = StringOrDefault(kept[i].key)

WholeLineMatch(l) ==
    LET m == MatchFields(l, 1, 1, <<>>)
    IN  m.ok /\ m.end = Len(l) + 1

RECURSIVE WholeLineRecords(_)
\* the records of the lines that are exactly the field sequence
WholeLineRecords(ls) ==
    IF ls = <<>> THEN <<>>
    ELSE (IF WholeLineMatch(Head(ls)) /\ ParseLine(Head(ls)).some
          THEN <<ParseLine(Head(ls)).val>> ELSE <<>>)
         \o WholeLineRecords(Tail(ls))

\* C5: a record is produced only for a line that is, from its first
\* character to its last, exactly the expected sequence of fields: a line
\* with too few fields, with text before the first field or after the last,
\* or with a malformed token yields no record.
C5_WholeLineOnly ==
    parsed.called /\ parsed.ret.some =>
        parsed.ret.val = WholeLineRecords(Lines(bytes))

\* the text of a line before its first space
FirstToken(l) == SubSeq(l, 1, IndexOf(l, " ", 1) - 1)

\* C6: a line whose first space-delimited token is not one of http, https,
\* h2, ws, wss yields no record.
C6_RequestTypeLiteral ==
    LET ls == Lines(bytes)
    IN  parsed.called /\ parsed.ret.some /\ Len(ls) = 1
        /\ FirstToken(ls[1]) \notin {"http", "https", "h2", "ws", "wss"}
        => parsed.ret.val = <<>>

\* texts that are no number at all
NotNumbers == {"abc", "HTTP", "xhttp", "httpx", "ahttpb", "ftp", "wss"}

\* texts that are no value of the numeric type
NotA(type) ==
    CASE type = "f32"    -> NotNumbers
      [] type = "u16"    -> NotNumbers \cup {"-1", "65536", "1.5", "18446744073709551616"}
      [] type = "usize"  -> NotNumbers \cup {"-1", "1.5", "18446744073709551616"}
      [] type = "String" -> {}

\* the pattern matches the line and the text in one of the numeric
\* positions is no value of the field's type
BadNumeric(l) ==
    LET m == Captures(l)
    IN  m.ok /\ \E k \in 1..NumFields : m.caps[k] \in NotA(FieldType(k))

RECURSIVE RecordsSkippingBadNumeric(_)
\* nothing for a line with a bad numeric field, and for any other line what
\* the parser makes of it
RecordsSkippingBadNumeric(ls) ==
    IF ls = <<>> THEN <<>>
    ELSE (IF ~BadNumeric(Head(ls)) /\ ParseLine(Head(ls)).some
          THEN <<ParseLine(Head(ls)).val>> ELSE <<>>)
         \o RecordsSkippingBadNumeric(Tail(ls))

\* C7: a line with a text in a numeric position that is no value of the
\* field's type (no number, 65536 or a negative number for an unsigned
\* 16-bit field, ..) yields no record, the call returns all the same, and
\* the other lines of the body are parsed.
C7_BadNumericDropped ==
    parsed.called /\ ValidUtf8(bytes) =>
        /\ parsed.ret.some
        /\ parsed.ret.val = RecordsSkippingBadNumeric(Lines(bytes))

\* a line with elb_status_code 65536 before a valid line: one record, the
\* valid line's
C7_Witness ==
    /\ parsed.called
    /\ bytes = Join([TokensA EXCEPT ![9] = "65536"]) \o "\n" \o LineB \o "\n"
    /\ parsed.ret.some
    /\ Len(parsed.ret.val) = 1
    /\ parsed.ret.val[1][1] = "https"
    /\ parsed.ret.val[1][9] = 404


====
